---- MODULE Spec2Model ----
(***************************************************************************)
(* Model of src/src/renderer.rs: the Renderer of a two-pass wgpu effect.   *)
(* The renderer owns a surface configuration, two off-screen targets, one  *)
(* shared uniform buffer and a frame counter.  Its handlers are new,       *)
(* render and resize; the caller (the winit application) owns the renderer *)
(* by unique reference, so handlers never interleave.                      *)
(*                                                                         *)
(* The device side is modelled as wgpu defines it: Queue::write_buffer and *)
(* Queue::write_texture do not execute when called, they are staged on the *)
(* queue and performed at the beginning of the next Queue::submit, before  *)
(* the command buffers of that submission; the render passes of a command  *)
(* buffer execute in recording order.                                      *)
(***************************************************************************)
EXTENDS Integers, Sequences, FiniteSets, TLC

VARIABLES
  pc,              \* position of the one logical thread inside new/render/resize
  config,          \* Renderer.config (width, height)
  surface_config,  \* what Surface::configure applied last
  targets,         \* Renderer.targets
  frame,           \* Renderer.frame
  uniform_buffer,  \* device contents of Renderer.uniform_buffer
  memory,          \* device contents of the live target textures, by texture id
  pending,         \* writes staged on Renderer.queue, not yet performed
  encoder,         \* render passes recorded in the current command encoder
  acquired,        \* the surface texture of the frame in progress
  size,            \* the argument of the resize call in progress / last made
  result,          \* what the last render call returned
  log,             \* what the device executed for the last submission
  nextId,          \* allocator of texture identities
  prev_ids,        \* texture ids of the targets when the last resize was entered
  prev_config,     \* Renderer.config when the last resize was entered
  built,           \* calls of target() made by the handler in progress / last run
  calls,           \* render calls made so far
  resizes,         \* resize calls made so far
  presented,       \* frames handed to present() so far
  configures,      \* calls of Surface::configure so far
  trace            \* the calls the render call in progress / last run has made

vars == <<pc, config, surface_config, targets, frame, uniform_buffer, memory,
          pending, encoder, acquired, size, result, log, nextId, prev_ids,
          prev_config, built, calls, resizes, presented, configures, trace>>

-----------------------------------------------------------------------------
\* Bounds of the exploration.
MaxSmall == 1
MaxCalls == 2
MaxResizes == 2

\* Program constants.
SAMPLE_UNIFORM_BUFFER_SIZE == 8
\* Limits::default() of the requested device.
max_texture_dimension_2d == 8192

\* Sizes the window system reports: tiny ones (zero included), the largest
\* one the device accepts, and one beyond it.
Sizes == (0 .. MaxSmall) \cup {max_texture_dimension_2d, max_texture_dimension_2d + 1}

None == [none |-> TRUE]

\* Renderer.texture_format: the first format the surface supports
texture_format == "formats[0]"

-----------------------------------------------------------------------------
\* Unsigned 32-bit arithmetic, on little-endian base-256 digit sequences so
\* that products beyond 2^32 are computed exactly.

RECURSIVE Pow(_, _)
Pow(b, k) == IF k = 0 THEN 1 ELSE b * Pow(b, k - 1)

RECURSIVE Log2(_)
Log2(n) == IF n < 2 THEN 0 ELSE 1 + Log2(n \div 2)

\* u32::to_le_bytes
to_le_bytes(n) == [j \in 1 .. 4 |-> (n \div Pow(256, j - 1)) % 256]

\* the little-endian reading of a byte sequence (the device's view of a u32)
RECURSIVE from_le_bytes(_)
from_le_bytes(bs) ==
  IF bs = <<>> THEN 0 ELSE Head(bs) + 256 * from_le_bytes(Tail(bs))

RECURSIVE ColumnSum(_, _, _, _)
ColumnSum(A, B, k, i) ==
  IF i > Len(A) THEN 0
  ELSE (IF (k + 1 - i) \in 1 .. Len(B) THEN A[i] * B[k + 1 - i] ELSE 0)
       + ColumnSum(A, B, k, i + 1)

RECURSIVE MulFrom(_, _, _, _)
MulFrom(A, B, k, carry) ==
  IF k > Len(A) + Len(B) THEN <<>>
  ELSE LET s == ColumnSum(A, B, k, 1) + carry
       IN  <<s % 256>> \o MulFrom(A, B, k + 1, s \div 256)

\* the exact product of two digit sequences, Len(A) + Len(B) digits
FullMul(A, B) == MulFrom(A, B, 1, 0)

IsZero(ds) == \A j \in 1 .. Len(ds) : ds[j] = 0

\* `a * b` on u32: the low 32 bits and whether the product left the range
MulU32(A, B) ==
  LET p == FullMul(A, B)
  IN  [value |-> SubSeq(p, 1, 4), overflow |-> ~IsZero(SubSeq(p, 5, Len(p)))]

\* `x as f32` for a u32 x: round to nearest, ties to even, 24 significant bits
AsF32(n) ==
  IF n < Pow(2, 24) THEN n
  ELSE LET q    == Pow(2, Log2(n) - 23)
           lo   == n % q
           base == n - lo
       IN  IF 2 * lo > q \/ (2 * lo = q /\ (base \div q) % 2 = 1)
           THEN base + q ELSE base

\* f32::to_le_bytes of a non-negative integral value (IEEE-754 binary32)
f32_to_le_bytes(v) ==
  IF v = 0 THEN to_le_bytes(0)
  ELSE LET e == Log2(v)
           m == IF e <= 23 THEN v * Pow(2, 23 - e) ELSE v \div Pow(2, e - 23)
       IN  to_le_bytes((e + 127) * Pow(2, 23) + (m - Pow(2, 23)))

\* the value of a binary32 bit pattern, as the shader reads it
f32_from_le_bytes(bs) ==
  LET bits == from_le_bytes(bs)
      e    == (bits \div Pow(2, 23)) - 127
      m    == (bits % Pow(2, 23)) + Pow(2, 23)
  IN  IF bits = 0 THEN 0
      ELSE IF e >= 23 THEN m * Pow(2, e - 23) ELSE m \div Pow(2, 23 - e)

Max(a, b) == IF a >= b THEN a ELSE b

-----------------------------------------------------------------------------
\* Uniforms::data
data(u) == to_le_bytes(u.i) \o f32_to_le_bytes(u.resolution)

\* the Uniforms record with the width taken for the resolution
Uniforms_width(i) == [i |-> i, resolution |-> AsF32(config.width)]

\* the Uniforms record render builds for pass i
Uniforms(i) == [i |-> i, resolution |-> AsF32(Max(config.width, config.height))]

\* what a shader invocation reads from the uniform buffer
ReadUniforms(buf) ==
  [i          |-> from_le_bytes(SubSeq(buf.bytes, 1, 4)),
   resolution |-> f32_from_le_bytes(SubSeq(buf.bytes, 5, 8)),
   call       |-> buf.call]

\* contents of a texture the device has just created (zero-initialised)
Fresh == [color |-> "zero", by |-> "create", call |-> 0, pass |-> 0]

\* the effect of the shader program: pass 0 inverts, pass 1 passes through
Invert(c) == IF c = "zero" THEN "white" ELSE IF c = "white" THEN "zero" ELSE c

shader(i, c) == IF i = 0 THEN Invert(c) ELSE c

\* target with the extent of the texture transposed
target_transposed(id) ==
  [texture      |-> [id |-> id, width |-> config.height, height |-> config.width,
                     format |-> texture_format],
   texture_view |-> id,
   bind_group   |-> [binding0 |-> id,
                     binding1 |-> "sampler",
                     binding2 |-> "uniform_buffer"]]

\* Renderer::target, allocating texture identity id
target(id) ==
  [texture      |-> [id |-> id, width |-> config.width, height |-> config.height,
                     format |-> texture_format],
   texture_view |-> id,
   bind_group   |-> [binding0 |-> id,
                     binding1 |-> "sampler",
                     binding2 |-> "uniform_buffer"]]

\* the clamp left out
Clamp_absent(n) == n

\* the clamp of new and resize
Clamp(n) == Max(n, 1)

\* Surface::configure rejects (fatally) an empty extent and one beyond the
\* device limit
Configurable(c) ==
  /\ c.width >= 1
  /\ c.height >= 1
  /\ c.width  <= max_texture_dimension_2d
  /\ c.height <= max_texture_dimension_2d

-----------------------------------------------------------------------------
\* The state at the struct literal of new: everything acquired, no target yet.
Init ==
  /\ pc = "new_0"
  /\ \E w \in Sizes, h \in Sizes :
       /\ config = [width |-> Clamp(w), height |-> Clamp(h)]
       /\ Configurable(config)
       /\ size = [width |-> w, height |-> h]
  /\ surface_config = config
  /\ targets = <<>>
  /\ frame = 0
  /\ uniform_buffer = [bytes |-> [j \in 1 .. SAMPLE_UNIFORM_BUFFER_SIZE |-> 0],
                       call |-> 0]
  /\ memory = <<>>
  /\ pending = <<>>
  /\ encoder = <<>>
  /\ acquired = None
  /\ result = "none"
  /\ log = <<>>
  /\ nextId = 1
  /\ prev_ids = {}
  /\ prev_config = config
  /\ built = 0
  /\ calls = 0
  /\ resizes = 0
  /\ presented = 0
  /\ configures = 1
  /\ trace = <<>>

\* new: renderer.targets.push(renderer.target()), first
NewTarget0 ==
  /\ pc = "new_0"
  /\ targets' = Append(targets, target(nextId))
  /\ memory' = (nextId :> Fresh)
  /\ nextId' = nextId + 1
  /\ built' = built + 1
  /\ pc' = "new_1"
  /\ UNCHANGED <<config, surface_config, frame, uniform_buffer, pending,
                 encoder, acquired, size, result, log, prev_ids, prev_config, calls,
                 resizes, presented,
                 configures,
                 trace>>

\* new: renderer.targets.push(renderer.target()), second; Ok(renderer)
NewTarget1 ==
  /\ pc = "new_1"
  /\ targets' = Append(targets, target(nextId))
  /\ memory' = memory @@ (nextId :> Fresh)
  /\ nextId' = nextId + 1
  /\ built' = built + 1
  /\ pc' = "idle"
  /\ UNCHANGED <<config, surface_config, frame, uniform_buffer, pending,
                 encoder, acquired, size, result, log, prev_ids, prev_config, calls,
                 resizes, presented,
                 configures,
                 trace>>

\* resize that returns early when the clamped size is the stored one
Resize_diffing(w, h) ==
  /\ pc = "idle"
  /\ resizes < MaxResizes
  /\ resizes' = resizes + 1
  /\ size' = [width |-> w, height |-> h]
  /\ config' = [width |-> Clamp(w), height |-> Clamp(h)]
  /\ prev_ids' = {targets[k].texture.id : k \in 1 .. Len(targets)}
  /\ prev_config' = config
  /\ built' = 0
  /\ IF config' = config
       THEN /\ configures' = configures
            /\ surface_config' = surface_config
            /\ pc' = "idle"
       ELSE /\ configures' = configures + 1
            /\ IF Configurable(config')
                 THEN /\ surface_config' = config'
                      /\ pc' = "resize_0"
                 ELSE /\ surface_config' = surface_config
                      /\ pc' = "panicked"
  /\ UNCHANGED <<targets, frame, uniform_buffer, memory, pending, encoder,
                 acquired, result, log, nextId, calls, presented,
                 trace>>

\* resize that configures the surface before it stores the new size
Resize_configure_first(w, h) ==
  /\ pc = "idle"
  /\ resizes < MaxResizes
  /\ resizes' = resizes + 1
  /\ size' = [width |-> w, height |-> h]
  /\ config' = [width |-> Clamp(w), height |-> Clamp(h)]
  /\ prev_ids' = {targets[k].texture.id : k \in 1 .. Len(targets)}
  /\ prev_config' = config
  /\ built' = 0
  /\ configures' = configures + 1
  /\ IF Configurable(config)
       THEN /\ surface_config' = config
            /\ pc' = "resize_0"
       ELSE /\ surface_config' = surface_config
            /\ pc' = "panicked"
  /\ UNCHANGED <<targets, frame, uniform_buffer, memory, pending, encoder,
                 acquired, result, log, nextId, calls, presented, trace>>

\* resize: clamp, store, Surface::configure
Resize(w, h) ==
  /\ pc = "idle"
  /\ resizes < MaxResizes
  /\ resizes' = resizes + 1
  /\ size' = [width |-> w, height |-> h]
  /\ config' = [width |-> Clamp(w), height |-> Clamp(h)]
  /\ prev_ids' = {targets[k].texture.id : k \in 1 .. Len(targets)}
  /\ prev_config' = config
  /\ built' = 0
  /\ configures' = configures + 1
  /\ IF Configurable(config')
       THEN /\ surface_config' = config'
            /\ pc' = "resize_0"
       ELSE /\ surface_config' = surface_config
            /\ pc' = "panicked"
  /\ UNCHANGED <<targets, frame, uniform_buffer, memory, pending, encoder,
                 acquired, result, log, nextId, calls, presented,
                 trace>>

\* the device memory after targets[k] is replaced by a target of identity id
Replace(k, id) ==
  [t \in ((DOMAIN memory) \ {targets[k].texture.id}) \cup {id} |->
     IF t = id THEN Fresh ELSE memory[t]]

\* resize that also replaces the uniform buffer by a new (zeroed) one
ResizeTarget0_new_uniform_buffer ==
  /\ pc = "resize_0"
  /\ targets' = [targets EXCEPT ![1] = target(nextId)]
  /\ memory' = Replace(1, nextId)
  /\ uniform_buffer' = [bytes |-> [j \in 1 .. SAMPLE_UNIFORM_BUFFER_SIZE |-> 0],
                        call |-> 0]
  /\ nextId' = nextId + 1
  /\ built' = built + 1
  /\ pc' = "resize_1"
  /\ UNCHANGED <<config, surface_config, frame, pending, encoder, acquired,
                 size, result, log, prev_ids, prev_config, calls, resizes,
                 presented, configures, trace>>

\* resize that builds the texture of target 0 anew and keeps its bind group
ResizeTarget0_keeps_bind_group ==
  /\ pc = "resize_0"
  /\ targets' = [targets EXCEPT ![1] =
                   [target(nextId) EXCEPT !.bind_group = targets[1].bind_group]]
  /\ memory' = Replace(1, nextId)
  /\ nextId' = nextId + 1
  /\ built' = built + 1
  /\ pc' = "resize_1"
  /\ UNCHANGED <<config, surface_config, frame, uniform_buffer, pending,
                 encoder, acquired, size, result, log, prev_ids, prev_config,
                 calls, resizes, presented, configures, trace>>

\* resize: self.targets[0] = self.target()
ResizeTarget0 ==
  /\ pc = "resize_0"
  /\ targets' = [targets EXCEPT ![1] = target(nextId)]
  /\ memory' = Replace(1, nextId)
  /\ nextId' = nextId + 1
  /\ built' = built + 1
  /\ pc' = "resize_1"
  /\ UNCHANGED <<config, surface_config, frame, uniform_buffer, pending,
                 encoder, acquired, size, result, log, prev_ids, prev_config, calls,
                 resizes, presented,
                 configures,
                 trace>>

\* resize returning after the first target only
ResizeTarget1_skipped ==
  /\ pc = "resize_1"
  /\ pc' = "idle"
  /\ UNCHANGED <<config, surface_config, targets, frame, uniform_buffer,
                 memory, pending, encoder, acquired, size, result, log,
                 nextId, prev_ids, prev_config, built, calls, resizes,
                 presented, configures,
                 trace>>

\* resize: self.targets[1] = self.target(); return
ResizeTarget1 ==
  /\ pc = "resize_1"
  /\ targets' = [targets EXCEPT ![2] = target(nextId)]
  /\ memory' = Replace(2, nextId)
  /\ nextId' = nextId + 1
  /\ built' = built + 1
  /\ pc' = "idle"
  /\ UNCHANGED <<config, surface_config, frame, uniform_buffer, pending,
                 encoder, acquired, size, result, log, prev_ids, prev_config, calls,
                 resizes, presented,
                 configures,
                 trace>>

-----------------------------------------------------------------------------
\* render that stages the first uniform write before acquiring the surface
RenderAcquire_writes_first ==
  /\ pc = "idle"
  /\ calls < MaxCalls
  /\ calls' = calls + 1
  /\ encoder' = <<>>
  /\ log' = <<>>
  /\ trace' = <<"create_command_encoder", "get_current_texture">>
  /\ \E ok \in BOOLEAN :
       IF ok
         THEN /\ acquired' = [width   |-> surface_config.width,
                              height  |-> surface_config.height,
                              content |-> Fresh]
              /\ result' = "running"
              /\ pc' = "init_target0"
              /\ pending' = pending
         ELSE /\ acquired' = None
              /\ result' = "err"
              /\ pc' = "idle"
              /\ pending' = Append(pending,
                   [op |-> "write_buffer", buffer |-> "uniform_buffer",
                    offset |-> 0, data |-> data(Uniforms(0)),
                    call |-> calls + 1])
  /\ UNCHANGED <<config, surface_config, targets, frame, uniform_buffer,
                 memory, size, nextId, prev_ids, prev_config, built, resizes,
                 presented, configures>>

\* render that counts the frame before it knows the surface was acquired
RenderAcquire_counts_first ==
  /\ pc = "idle"
  /\ calls < MaxCalls
  /\ calls' = calls + 1
  /\ encoder' = <<>>
  /\ log' = <<>>
  /\ trace' = <<"create_command_encoder", "get_current_texture">>
  /\ \E ok \in BOOLEAN :
       IF ok
         THEN /\ acquired' = [width   |-> surface_config.width,
                              height  |-> surface_config.height,
                              content |-> Fresh]
              /\ result' = "running"
              /\ pc' = "init_target0"
              /\ frame' = frame
         ELSE /\ acquired' = None
              /\ result' = "err"
              /\ pc' = "idle"
              /\ frame' = frame + 1
  /\ UNCHANGED <<config, surface_config, targets, uniform_buffer,
                 memory, pending, size, nextId, prev_ids, prev_config, built,
                 resizes, presented, configures>>

\* render: create the command encoder, then Surface::get_current_texture,
\* which the presentation backend may refuse; `?` returns the error.
RenderAcquire ==
  /\ pc = "idle"
  /\ calls < MaxCalls
  /\ calls' = calls + 1
  /\ encoder' = <<>>
  /\ log' = <<>>
  /\ trace' = <<"create_command_encoder", "get_current_texture">>
  /\ \E ok \in BOOLEAN :
       IF ok
         THEN /\ acquired' = [width   |-> surface_config.width,
                              height  |-> surface_config.height,
                              content |-> Fresh]
              /\ result' = "running"
              /\ pc' = "init_target0"
         ELSE /\ acquired' = None
              /\ result' = "err"
              /\ pc' = "idle"
  /\ UNCHANGED <<config, surface_config, targets, frame, uniform_buffer,
                 memory, pending, size, nextId, prev_ids, prev_config, built, resizes,
                 presented,
                 configures>>

\* the length without the four bytes of a texel
ZeroLen_texels ==
  MulU32(to_le_bytes(config.width), to_le_bytes(config.height))

\* self.config.width * self.config.height * 4, on u32
ZeroLen ==
  LET wh == MulU32(to_le_bytes(config.width), to_le_bytes(config.height))
      r  == MulU32(wh.value, to_le_bytes(4))
  IN  [value |-> r.value, overflow |-> wh.overflow \/ r.overflow]

\* self.config.width * 4, on u32
RowPitch == MulU32(to_le_bytes(config.width), to_le_bytes(4))

\* the zero fill aimed at the other target
ZeroFill_target1 ==
  [op             |-> "write_texture",
   texture        |-> targets[2].texture,
   byte           |-> 0,
   len            |-> ZeroLen.value,
   bytes_per_row  |-> RowPitch.value,
   rows_per_image |-> config.height,
   extent         |-> [width |-> config.width, height |-> config.height],
   call           |-> calls]

\* the arguments of the queue.write_texture call of render
ZeroFill ==
  [op             |-> "write_texture",
   texture        |-> targets[1].texture,
   byte           |-> 0,
   len            |-> ZeroLen.value,
   bytes_per_row  |-> RowPitch.value,
   rows_per_image |-> config.height,
   extent         |-> [width |-> config.width, height |-> config.height],
   call           |-> calls]

\* digit sequences of equal length compared as numbers
RECURSIVE Geq(_, _)
Geq(A, B) ==
  IF A = <<>> THEN TRUE
  ELSE LET n == Len(A)
       IN  IF A[n] # B[n] THEN A[n] > B[n]
           ELSE Geq(SubSeq(A, 1, n - 1), SubSeq(B, 1, n - 1))

Pad(ds, n) == [j \in 1 .. n |-> IF j <= Len(ds) THEN ds[j] ELSE 0]

\* Queue::write_texture validation: the copy lies inside the texture, a row
\* holds a row of texels, and the data holds every row.
Accepted(wr) ==
  /\ wr.extent.width  <= wr.texture.width
  /\ wr.extent.height <= wr.texture.height
  /\ Geq(Pad(wr.bytes_per_row, 8), FullMul(to_le_bytes(wr.extent.width), to_le_bytes(4)))
  /\ Geq(Pad(wr.len, 12),
         FullMul(FullMul(to_le_bytes(wr.extent.width), to_le_bytes(4)),
                 to_le_bytes(wr.extent.height)))

\* render: zero initialize target texture 0.  An overflowing product panics
\* in a build with overflow checks; in a build without, the wrapped length
\* reaches write_texture, whose validation error is fatal.
RenderInitTarget0 ==
  /\ pc = "init_target0"
  /\ \E checks \in BOOLEAN :
       IF (checks /\ (ZeroLen.overflow \/ RowPitch.overflow)) \/ ~Accepted(ZeroFill)
         THEN /\ pc' = "panicked"
              /\ pending' = pending
              /\ trace' = trace
         ELSE /\ pc' = "pass0"
              /\ pending' = Append(pending, ZeroFill)
              /\ trace' = Append(trace, "write_texture")
  /\ UNCHANGED <<config, surface_config, targets, frame, uniform_buffer,
                 memory, encoder, acquired, size, result, log, nextId,
                 prev_ids, prev_config, built, calls, resizes, presented,
                 configures>>

\* the uniform write aimed at a buffer no bind group names
WriteUniforms_other_buffer(i) ==
  [op |-> "write_buffer", buffer |-> "other_buffer", offset |-> 0,
   data |-> data(Uniforms(i)), call |-> calls]

\* the queue.write_buffer call of pass i
WriteUniforms(i) ==
  [op |-> "write_buffer", buffer |-> "uniform_buffer", offset |-> 0,
   data |-> data(Uniforms(i)), call |-> calls]

\* RenderPass0 binding the bind group of the target it renders into
RenderPass0_sample_target1 ==
  /\ pc = "pass0"
  /\ trace' = trace \o <<"write_buffer", "render_pass">>
  /\ pending' = Append(pending, WriteUniforms(0))
  /\ encoder' = Append(encoder,
       [label      |-> "filter render pass",
        view       |-> [texture |-> targets[2].texture_view],
        load       |-> "clear",
        bind_group |-> targets[2].bind_group,
        draw       |-> <<3, 1>>])
  /\ pc' = "pass1"
  /\ UNCHANGED <<config, surface_config, targets, frame, uniform_buffer,
                 memory, acquired, size, result, log, nextId, prev_ids,
                 prev_config, built, calls, resizes, presented, configures>>

\* RenderPass0 with the attachment taken from the wrong slot of the pool
RenderPass0_attach_target0 ==
  /\ pc = "pass0"
  /\ trace' = trace \o <<"write_buffer", "render_pass">>
  /\ pending' = Append(pending, WriteUniforms(0))
  /\ encoder' = Append(encoder,
       [label      |-> "filter render pass",
        view       |-> [texture |-> targets[1].texture_view],
        load       |-> "clear",
        bind_group |-> targets[1].bind_group,
        draw       |-> <<3, 1>>])
  /\ pc' = "pass1"
  /\ UNCHANGED <<config, surface_config, targets, frame, uniform_buffer,
                 memory, acquired, size, result, log, nextId, prev_ids,
                 prev_config, built, calls, resizes, presented,
                 configures>>

\* render: write uniforms {i: 0}, record the pass from target 0 into target 1
RenderPass0 ==
  /\ pc = "pass0"
  /\ trace' = trace \o <<"write_buffer", "render_pass">>
  /\ pending' = Append(pending, WriteUniforms(0))
  /\ encoder' = Append(encoder,
       [label      |-> "filter render pass",
        view       |-> [texture |-> targets[2].texture_view],
        load       |-> "clear",
        bind_group |-> targets[1].bind_group,
        draw       |-> <<3, 1>>])
  /\ pc' = "pass1"
  /\ UNCHANGED <<config, surface_config, targets, frame, uniform_buffer,
                 memory, acquired, size, result, log, nextId, prev_ids, prev_config,
                 built, calls, resizes, presented,
                 configures>>

\* RenderPass1 of a render that goes on to present without submitting
RenderPass1_no_submit ==
  /\ pc = "pass1"
  /\ trace' = trace \o <<"write_buffer", "render_pass">>
  /\ pending' = Append(pending, WriteUniforms(1))
  /\ encoder' = Append(encoder,
       [label      |-> "final render pass",
        view       |-> [surface |-> TRUE],
        load       |-> "clear",
        bind_group |-> targets[2].bind_group,
        draw       |-> <<3, 1>>])
  /\ pc' = "present"
  /\ UNCHANGED <<config, surface_config, targets, frame, uniform_buffer,
                 memory, acquired, size, result, log, nextId, prev_ids,
                 prev_config, built, calls, resizes, presented, configures>>

\* render: write uniforms {i: 1}, record the pass from target 1 into the
\* surface texture
RenderPass1 ==
  /\ pc = "pass1"
  /\ trace' = trace \o <<"write_buffer", "render_pass">>
  /\ pending' = Append(pending, WriteUniforms(1))
  /\ encoder' = Append(encoder,
       [label      |-> "final render pass",
        view       |-> [surface |-> TRUE],
        load       |-> "clear",
        bind_group |-> targets[2].bind_group,
        draw       |-> <<3, 1>>])
  /\ pc' = "submit"
  /\ UNCHANGED <<config, surface_config, targets, frame, uniform_buffer,
                 memory, acquired, size, result, log, nextId, prev_ids, prev_config,
                 built, calls, resizes, presented,
                 configures>>

-----------------------------------------------------------------------------
\* The device.  A device state is the memory of the textures, the uniform
\* buffer, the surface texture and the record of what was executed.

\* a staged write, performed
ApplyWrite(dev, wr) ==
  IF wr.op = "write_buffer"
    THEN IF wr.buffer = "uniform_buffer"
           THEN [dev EXCEPT !.uniform_buffer = [bytes |-> wr.data, call |-> wr.call]]
           ELSE dev
    ELSE [dev EXCEPT !.memory[wr.texture.id] =
            [color |-> IF /\ wr.byte = 0
                          /\ wr.extent.width  = wr.texture.width
                          /\ wr.extent.height = wr.texture.height
                       THEN "zero" ELSE "mixed",
             by    |-> "write_texture",
             call  |-> wr.call,
             pass  |-> 0]]

RECURSIVE ApplyWrites(_, _)
ApplyWrites(dev, ws) ==
  IF ws = <<>> THEN dev ELSE ApplyWrites(ApplyWrite(dev, Head(ws)), Tail(ws))

\* the contents of the buffer a bind group names at binding 2
Bound(dev, buffer) ==
  IF buffer = "uniform_buffer" THEN dev.uniform_buffer
  ELSE [bytes |-> [j \in 1 .. SAMPLE_UNIFORM_BUFFER_SIZE |-> 0], call |-> 0]

\* a render pass, executed: the attachment is cleared, then the full-screen
\* triangle is drawn with the bound texture and the uniform buffer as they
\* are on the device at that moment.
ExecPass(dev, p, k, c) ==
  LET u   == ReadUniforms(Bound(dev, p.bind_group.binding2))
      src == dev.memory[p.bind_group.binding0]
      out == [color |-> shader(u.i, src.color), by |-> "draw", call |-> c, pass |-> k]
      ev  == [pass |-> k, uniforms |-> u, sampled |-> p.bind_group.binding0,
              src |-> src, view |-> p.view, out |-> out]
  IN  IF "surface" \in DOMAIN p.view
        THEN [dev EXCEPT !.surface = out, !.log = Append(@, ev)]
        ELSE [dev EXCEPT !.memory[p.view.texture] = out, !.log = Append(@, ev)]

RECURSIVE ExecPasses(_, _, _, _)
ExecPasses(dev, ps, k, c) ==
  IF ps = <<>> THEN dev
  ELSE ExecPasses(ExecPass(dev, Head(ps), k, c), Tail(ps), k + 1, c)

\* Queue::submit of one command buffer: the staged writes first, in the
\* order they were staged, then the passes of the command buffer in order
Submit(dev, ws, ps, c) == ExecPasses(ApplyWrites(dev, ws), ps, 0, c)

\* render: self.queue.submit([encoder.finish()])
RenderSubmit ==
  /\ pc = "submit"
  /\ trace' = Append(trace, "submit")
  /\ LET dev == Submit([memory |-> memory, uniform_buffer |-> uniform_buffer,
                        surface |-> acquired.content, log |-> <<>>],
                       pending, encoder, calls)
     IN  /\ memory' = dev.memory
         /\ uniform_buffer' = dev.uniform_buffer
         /\ acquired' = [acquired EXCEPT !.content = dev.surface]
         /\ log' = dev.log
  /\ pending' = <<>>
  /\ encoder' = <<>>
  /\ pc' = "present"
  /\ UNCHANGED <<config, surface_config, targets, frame, size, result, nextId,
                 prev_ids, prev_config, built, calls, resizes, presented,
                 configures>>

\* render: frame.present()
RenderPresent ==
  /\ pc = "present"
  /\ trace' = Append(trace, "present")
  /\ acquired' = None
  /\ presented' = presented + 1
  /\ pc' = "count"
  /\ UNCHANGED <<config, surface_config, targets, frame, uniform_buffer,
                 memory, pending, encoder, size, result, log, nextId,
                 prev_ids, prev_config, built, calls, resizes,
                 configures>>

\* the end of a render that swaps the two targets for the next frame
RenderCount_swaps_targets ==
  /\ pc = "count"
  /\ trace' = Append(trace, "frame += 1")
  /\ frame' = frame + 1
  /\ result' = "ok"
  /\ targets' = <<targets[2], targets[1]>>
  /\ pc' = "idle"
  /\ UNCHANGED <<config, surface_config, uniform_buffer, memory, pending,
                 encoder, acquired, size, log, nextId, prev_ids, prev_config,
                 built, calls, resizes, presented, configures>>

\* render: self.frame += 1; Ok(())
RenderCount ==
  /\ pc = "count"
  /\ trace' = Append(trace, "frame += 1")
  /\ frame' = frame + 1
  /\ result' = "ok"
  /\ pc' = "idle"
  /\ UNCHANGED <<config, surface_config, targets, uniform_buffer, memory,
                 pending, encoder, acquired, size, log, nextId, prev_ids, prev_config,
                 built, calls, resizes, presented,
                 configures>>

-----------------------------------------------------------------------------
Next ==
  \/ NewTarget0
  \/ NewTarget1
  \/ \E w \in Sizes, h \in Sizes : Resize(w, h)
  \/ ResizeTarget0
  \/ ResizeTarget1
  \/ RenderAcquire
  \/ RenderInitTarget0
  \/ RenderPass0
  \/ RenderPass1
  \/ RenderSubmit
  \/ RenderPresent
  \/ RenderCount

Spec == Init /\ [][Next]_vars

-----------------------------------------------------------------------------
\* The device has executed the submission of the current render call.
Executed == pc \in {"present", "count"} /\ Len(log) = 2

\* C1: in every rendered frame the uniform record pass 0's draw reads when
\* it executes has pass_index 0, and the one pass 1's draw reads has
\* pass_index 1.
C1_PassIndexAtExecution ==
  Executed => /\ log[1].uniforms.i = 0
              /\ log[2].uniforms.i = 1

\* C2: in every rendered frame pass 1 samples target 1 as pass 0 of the same
\* render call left it, never as created, as cleared or as an earlier frame
\* left it.
C2_Pass1ReadsPass0Output ==
  Executed => /\ log[1].pass = 0
              /\ log[2].pass = 1
              /\ log[2].sampled = targets[2].texture.id
              /\ log[1].view = [texture |-> log[2].sampled]
              /\ log[2].src = log[1].out
              /\ log[2].src.by = "draw"
              /\ log[2].src.pass = 0
              /\ log[2].src.call = calls

\* a second frame has executed on a target 1 that a resize created
C2_Witness ==
  /\ Executed
  /\ presented >= 1
  /\ resizes >= 1
  /\ log[2].sampled \notin prev_ids
  /\ log[2].src.by = "draw"

\* the texture identities of the pool
TargetIds == {targets[k].texture.id : k \in 1 .. Len(targets)}

\* both targets have the extent e
TargetsSized(e) ==
  /\ Len(targets) = 2
  /\ \A k \in 1 .. 2 : /\ targets[k].texture.width = e.width
                       /\ targets[k].texture.height = e.height

\* C3: after resize returns, the stored configuration is the request with
\* each dimension raised to at least 1, and both targets have exactly that
\* extent; a request with both dimensions >= 1 is kept as it is.
C3_ResizeClampsAndSizes ==
  (pc = "idle" /\ resizes > 0) =>
     /\ config.width  = (IF size.width  >= 1 THEN size.width  ELSE 1)
     /\ config.height = (IF size.height >= 1 THEN size.height ELSE 1)
     /\ TargetsSized(config)
     /\ (size.width >= 1 /\ size.height >= 1) => TargetsSized(size)

\* a 0 x h request (h > 1) has returned: 1 x h configuration and targets
C3_Witness ==
  /\ pc = "idle"
  /\ resizes > 0
  /\ size.width = 0
  /\ size.height > 1
  /\ TargetsSized([width |-> 1, height |-> size.height])

\* C4: in every state the stored configuration has width >= 1 and
\* height >= 1, so render never acquires or zero-fills with an empty extent.
C4_ConfigAtLeastOne ==
  /\ config.width >= 1
  /\ config.height >= 1
  /\ surface_config.width >= 1
  /\ surface_config.height >= 1

\* render has reached the zero fill after a resize that asked for 0 x 0
C4_Witness ==
  /\ pc = "init_target0"
  /\ resizes > 0
  /\ size = [width |-> 0, height |-> 0]

\* the positions at which a render call is in progress
InRender == pc \in {"init_target0", "pass0", "pass1", "submit", "present", "count"}

\* C5: whenever render can start, and all through a render call, the pool
\* holds exactly two targets, both of the extent of the current
\* configuration; the pools with fewer targets or with targets of two
\* extents exist only inside new and resize.
C5_PoolCompleteAtRender ==
  /\ (pc = "idle" \/ InRender) =>
        /\ Len(targets) = 2
        /\ TargetsSized(config)
        /\ DOMAIN memory = TargetIds
        /\ Cardinality(TargetIds) = 2
  /\ (Len(targets) < 2 => pc \in {"new_0", "new_1"})
  /\ (~TargetsSized(config) => pc \in {"new_0", "new_1", "resize_0", "resize_1", "panicked"})

\* a render call is running after a resize that changed the extent
C5_Witness ==
  /\ pc = "init_target0"
  /\ resizes > 0
  /\ prev_config # config
  /\ TargetsSized(config)

\* C6: a render call whose surface acquisition fails returns an error and
\* does nothing else: no write is staged, no pass recorded, nothing is
\* submitted or presented, and the frame counter, the configuration and the
\* targets stay as they were.
C6_FailedAcquireAbandonsFrame ==
  [][(pc = "idle" /\ calls' = calls + 1 /\ acquired' = None) =>
       /\ result' = "err"
       /\ pc' = "idle"
       /\ pending' = pending
       /\ encoder' = <<>>
       /\ log' = <<>>
       /\ UNCHANGED <<frame, presented, config, surface_config, targets,
                      memory, uniform_buffer>>]_vars

\* an acquisition has failed after a frame was presented
C6_Witness ==
  /\ pc = "idle"
  /\ result = "err"
  /\ frame >= 1
  /\ pending = <<>>

\* C7: the frame counter is the number of frames presented: 0 after
\* construction, raised by exactly 1 once per presented frame and by nothing
\* else (not by a failed render, not by resize), never lowered.
C7_FrameCountsPresentedFrames ==
  /\ frame = 0
  /\ [](frame + (IF pc = "count" THEN 1 ELSE 0) = presented)
  /\ []((calls = 1 /\ result = "ok") => frame = 1)
  /\ [][frame' = frame \/ (pc = "count" /\ frame' = frame + 1)]_vars
  /\ [][(presented' # presented) => (presented' = presented + 1 /\ pc = "present")]_vars

\* a failed render was followed by a successful one
C7_Witness ==
  /\ pc = "idle"
  /\ calls = 2
  /\ result = "ok"
  /\ frame = 1

\* C8: construction builds exactly two targets; every resize, one that asks
\* for the current size included, configures the surface once and builds
\* exactly two targets, neither of which is a target of before the call;
\* a resize to the current size leaves configuration and extents as they
\* were.
C8_ResizeRebuildsBoth ==
  /\ [](pc = "idle" =>
          /\ built = 2
          /\ Len(targets) = 2
          /\ targets[1].texture.id # targets[2].texture.id
          /\ configures = resizes + 1
          /\ resizes > 0 => /\ TargetIds \cap prev_ids = {}
                            /\ surface_config = config
                            /\ (size = [width |-> prev_config.width,
                                        height |-> prev_config.height]
                                  => config = prev_config /\ TargetsSized(prev_config)))
  /\ [][(pc = "idle" /\ resizes' = resizes + 1) =>
          (built' = 0 /\ pc' \in {"resize_0", "panicked"})]_vars

\* a resize to the size already configured has returned
C8_Witness ==
  /\ pc = "idle"
  /\ resizes = 2
  /\ size = [width |-> prev_config.width, height |-> prev_config.height]
  /\ config = prev_config
  /\ built = 2
  /\ TargetIds \cap prev_ids = {}

\* C9: the zero fill of render stages a write of zero bytes to target 0
\* whose length is width * height * 4, with width * 4 bytes per row, height
\* rows per image and an extent of width x height; the u32 products do not
\* overflow and the step does not fail.
C9_ZeroFillBuffer ==
  /\ (pc = "init_target0" => ~ZeroLen.overflow /\ ~RowPitch.overflow)
  /\ (pc = "panicked" => result # "running")
  /\ (pc = "pass0" =>
        LET wr == pending[Len(pending)]
        IN  /\ Len(pending) = 1
            /\ wr.op = "write_texture"
            /\ wr.texture = targets[1].texture
            /\ wr.byte = 0
            /\ from_le_bytes(wr.len) = config.width * config.height * 4
            /\ from_le_bytes(wr.bytes_per_row) = config.width * 4
            /\ wr.rows_per_image = config.height
            /\ wr.extent = [width |-> config.width, height |-> config.height])

\* the zero fill has been staged at the largest extent the device accepts
C9_Witness ==
  /\ pc = "pass0"
  /\ config = [width |-> max_texture_dimension_2d, height |-> max_texture_dimension_2d]
  /\ Len(pending) = 1

\* C10: in every rendered frame the texture pass 0 samples is target 0, and
\* when pass 0 executes it is all zero, as the zero fill of the same render
\* call left it.
C10_Pass0ReadsZeroedTarget0 ==
  Executed => /\ log[1].sampled = targets[1].texture.id
              /\ log[1].src.color = "zero"
              /\ log[1].src.by = "write_texture"
              /\ log[1].src.call = calls
              /\ memory[targets[1].texture.id] = log[1].src

\* a later frame has executed on a target 0 that a resize created
C10_Witness ==
  /\ Executed
  /\ presented >= 1
  /\ resizes >= 1
  /\ log[1].sampled \notin prev_ids
  /\ log[1].src.by = "write_texture"

\* the larger dimension of an extent
Larger(e) == IF e.width >= e.height THEN e.width ELSE e.height

\* the resolution a staged uniform write carries
WrittenResolution(wr) == f32_from_le_bytes(SubSeq(wr.data, 5, 8))

\* C11: both uniform records of a render call carry as resolution the larger
\* of the width and height configured at that call, which after resize calls
\* is that of the last (clamped) request; the passes read that value.
C11_ResolutionIsLargerDimension ==
  /\ (pc = "submit" =>
        /\ Len(pending) = 3
        /\ \A k \in {2, 3} :
             /\ pending[k].op = "write_buffer"
             /\ WrittenResolution(pending[k]) = Larger(config)
             /\ WrittenResolution(pending[k]) =
                  Larger([width  |-> IF size.width  >= 1 THEN size.width  ELSE 1,
                          height |-> IF size.height >= 1 THEN size.height ELSE 1]))
  /\ (Executed => \A k \in {1, 2} : log[k].uniforms.resolution = Larger(config))

\* both records are staged in a frame after a resize that changed the larger
\* dimension, with the height the larger one
C11_Witness ==
  /\ pc = "submit"
  /\ resizes >= 1
  /\ Larger(prev_config) # Larger(config)
  /\ config.height > config.width
  /\ Len(pending) = 3

\* the calls of a render call that succeeds, in order
FrameSteps ==
  <<"create_command_encoder", "get_current_texture", "write_texture",
    "write_buffer", "render_pass", "write_buffer", "render_pass",
    "submit", "present", "frame += 1">>

IsPrefix(a, b) == Len(a) <= Len(b) /\ SubSeq(b, 1, Len(a)) = a

\* C12: a render call makes its calls in the order acquire, zero fill,
\* pass 0, pass 1, submit, present, count; it submits once, one command
\* buffer holding pass 0 and then pass 1; present follows the submission and
\* the frame counter is raised only after present.
C12_FrameStepOrder ==
  /\ IsPrefix(trace, FrameSteps)
  /\ ((pc = "idle" /\ result = "ok") => trace = FrameSteps)
  /\ (pc = "submit" =>
        /\ Len(encoder) = 2
        /\ encoder[1].label = "filter render pass"
        /\ encoder[2].label = "final render pass"
        /\ log = <<>>)
  /\ Len(log) \in {0, 2}
  /\ (Executed =>
        /\ log[1].pass = 0 /\ log[1].view = [texture |-> targets[2].texture_view]
        /\ log[2].pass = 1 /\ log[2].view = [surface |-> TRUE]
        /\ pending = <<>> /\ encoder = <<>>)
  /\ (pc = "present" => presented = frame /\ acquired # None)
  /\ (pc = "count" => presented = frame + 1)

\* a second frame has run to its end
C12_Witness ==
  /\ pc = "idle"
  /\ result = "ok"
  /\ frame = 2
  /\ trace = FrameSteps

\* C13: every value a pass reads from the uniform buffer was written by a
\* write_buffer call of the same render call, never by an earlier frame,
\* whether that frame was presented or abandoned and whether or not a resize
\* came in between; no write is left staged between render calls.
C13_UniformsFromSameFrame ==
  /\ (Executed => /\ \A k \in {1, 2} : log[k].uniforms.call = calls
                  /\ uniform_buffer.call = calls)
  /\ (pc = "submit" => \E k \in 1 .. Len(pending) :
                          /\ pending[k].op = "write_buffer"
                          /\ pending[k].buffer = targets[1].bind_group.binding2
                          /\ pending[k].call = calls)
  /\ (\A k \in 1 .. Len(pending) : pending[k].call = calls)
  /\ (pc \in {"idle", "resize_0", "resize_1"} => pending = <<>>)

\* the frame after an abandoned frame and a resize has executed
C13_Witness ==
  /\ pc = "present"
  /\ Len(log) = 2
  /\ calls = 2
  /\ presented = 0
  /\ resizes >= 1
  /\ log[1].uniforms.call = 2

\* a step of a render call
RenderStep == (pc = "idle" /\ calls' = calls + 1) \/ InRender

\* C14: no step of a render call, successful or failed, changes the pool or
\* the configuration: the targets (identities, extents, formats, bind
\* groups), the stored and the applied configuration stay as they are, no
\* texture is created or dropped and the surface is not configured; what
\* changes is confined to the uniform buffer contents, the texture contents
\* and the frame counter.
C14_RenderKeepsTopology ==
  [][RenderStep =>
       /\ UNCHANGED <<targets, config, surface_config, size, nextId, built,
                      configures, resizes, prev_ids, prev_config>>
       /\ DOMAIN memory' = DOMAIN memory]_vars

\* a presented frame and an abandoned frame have both returned
C14_Witness ==
  /\ pc = "idle"
  /\ calls = 2
  /\ frame = 1
  /\ result = "err"
  /\ uniform_buffer.call = 1

\* a step of a resize call
ResizeStep == (pc = "idle" /\ resizes' = resizes + 1) \/ pc \in {"resize_0", "resize_1"}

\* C15: no step of a resize call changes the uniform buffer (which buffer
\* the bind groups name, and its contents), the sampler the bind groups
\* name, the pixel format of the targets, the frame counter or anything
\* staged or recorded; resize changes the stored size, the applied
\* configuration and the two targets only.
C15_ResizeKeepsTheRest ==
  [][ResizeStep =>
       /\ UNCHANGED <<uniform_buffer, frame, presented, pending, encoder,
                      acquired, calls, result, log, trace>>
       /\ \A k \in 1 .. Len(targets) :
            /\ targets'[k].bind_group.binding1 = targets[k].bind_group.binding1
            /\ targets'[k].bind_group.binding2 = targets[k].bind_group.binding2
            /\ targets'[k].texture.format = targets[k].texture.format]_vars

\* a resize has returned after a frame left its record in the uniform buffer
C15_Witness ==
  /\ pc = "idle"
  /\ resizes >= 1
  /\ frame >= 1
  /\ uniform_buffer.call >= 1
  /\ from_le_bytes(SubSeq(uniform_buffer.bytes, 1, 4)) = 1
  /\ \A t \in DOMAIN memory : memory[t] = Fresh

\* C16: the bind group of each target binds the view of that target's own
\* current texture at slot 0, the shared sampler at slot 1 and the shared
\* uniform buffer, the one render writes, at slot 2; no bind group of the
\* pool names a texture a resize has replaced.
C16_BindGroupsOfOwnTexture ==
  /\ \A k \in 1 .. Len(targets) :
       /\ targets[k].texture_view = targets[k].texture.id
       /\ targets[k].bind_group.binding0 = targets[k].texture_view
       /\ targets[k].bind_group.binding0 \in DOMAIN memory
       /\ targets[k].bind_group.binding1 = "sampler"
       /\ targets[k].bind_group.binding2 = WriteUniforms(0).buffer
       /\ targets[k].bind_group.binding2 = WriteUniforms(1).buffer
  /\ ((pc = "idle" /\ resizes > 0) =>
        \A k \in 1 .. 2 : targets[k].bind_group.binding0 \notin prev_ids)

\* two resizes have returned
C16_Witness ==
  /\ pc = "idle"
  /\ resizes = 2
  /\ Len(targets) = 2
  /\ targets[1].bind_group.binding0 \notin prev_ids
  /\ targets[2].bind_group.binding0 \notin prev_ids

\* C17: no render pass samples the texture it renders into: pass 0 binds
\* target 0 and renders into target 1, pass 1 binds target 1 and renders
\* into the surface texture, and in each pass the sampled texture and the
\* attachment are two resources, after any resize and render calls.
C17_NoPassSamplesItsAttachment ==
  /\ \A k \in 1 .. Len(encoder) :
       encoder[k].view # [texture |-> encoder[k].bind_group.binding0]
  /\ (Len(encoder) >= 1 =>
        /\ encoder[1].bind_group = targets[1].bind_group
        /\ encoder[1].view = [texture |-> targets[2].texture_view])
  /\ (Len(encoder) >= 2 =>
        /\ encoder[2].bind_group = targets[2].bind_group
        /\ encoder[2].view = [surface |-> TRUE])
  /\ (Executed =>
        /\ log[1].sampled = targets[1].texture.id
        /\ log[1].view = [texture |-> targets[2].texture.id]
        /\ log[2].sampled = targets[2].texture.id
        /\ log[2].view = [surface |-> TRUE]
        /\ targets[1].texture.id # targets[2].texture.id)

\* the second frame has executed on a pool two resizes have rebuilt
C17_Witness ==
  /\ Executed
  /\ resizes = 2
  /\ calls = 2
  /\ presented = 1
  /\ log[1].sampled # log[2].sampled

\* C18: whenever render can start and all through a render call, the extent
\* last applied to the surface by configure is the stored configuration and
\* the extent of both targets, and the acquired surface texture has the
\* extent of the two targets.
C18_SurfaceMatchesTargets ==
  (pc = "idle" \/ InRender) =>
     /\ surface_config = config
     /\ TargetsSized(surface_config)
     /\ (acquired # None =>
           TargetsSized([width |-> acquired.width, height |-> acquired.height]))

\* a surface texture is acquired after a resize that changed both dimensions
C18_Witness ==
  /\ pc = "pass0"
  /\ acquired # None
  /\ resizes >= 1
  /\ prev_config.width # config.width
  /\ prev_config.height # config.height
  /\ acquired.width = config.width

====
